---- MODULE Spec2Model ----
(***************************************************************************)
(* Model of the apply command executor (package events, ApplyExecutor) and *)
(* of the Bitbucket VCS client (package vcs, BitbucketClient).             *)
(*                                                                         *)
(* A command is one call of ApplyExecutor.Execute.  Its position (pc)      *)
(* advances from one blocking collaborator call to the next: the VCS       *)
(* approval query, the external approval POST, the workspace lookup, the   *)
(* plan scan, and per plan the pre-execute stage, the Terraform run, the   *)
(* webhook and the post-apply hooks.  What the collaborators answer is the *)
(* environment's choice; what Execute does with the answer is the code's.  *)
(***************************************************************************)
EXTENDS Integers, Sequences, FiniteSets, TLC

\* ------------------------------------------------------------------ bounds

\* Longest relative path (in components) of a file in a workspace tree.
MaxDepth == 2
\* Most files a workspace tree holds.
MaxFiles == 2
\* Most requests the Bitbucket client issues in one behaviour.
MaxRequests == 2

\* ------------------------------------------------------------- small values

Cmds == {1, 2}

Envs == {"staging", "prod"}
Pulls == {1, 2}
Hosts == {"Github", "Bitbucket"}
RepoOwner == "acme"
RepoName == "infra"
RepoFullName == "acme/infra"
UserName == "alice"
HeadCommit == "c0ffee"

\* The unset string / error of a Go struct.
NoStr == ""
NoErr == <<>>

\* ------------------------------------------------------------ path helpers

\* Names a directory entry can carry, in the lexical order filepath.Walk
\* visits them (readDirNames sorts).  Files and directories alike are named
\* like plan files.
NameOrder == <<"prod.tfplan", "staging.tfplan">>
Names == {NameOrder[i] : i \in 1..Len(NameOrder)}

Front(s) == SubSeq(s, 1, Len(s) - 1)
Last(s) == s[Len(s)]

\* filepath.Join(dir, rel...): paths are sequences of components.
Join(dir, rel) == dir \o rel

\* filepath.Dir(path): the path without its last component.
Dir(path) == Front(path)

\* filepath.Rel(base, target) for a target under base: the components of
\* target after base ("." when there are none, written <<>> here).
Rel(base, target) == SubSeq(target, Len(base) + 1, Len(target))

\* info.Name() of the entry at a path.
BaseName(path) == Last(path)

\* ctx.Command.Environment + ".tfplan"
PlanFileName(env) == env \o ".tfplan"

\* --------------------------------------------------------- workspace trees

\* A workspace tree: the files below the workspace root, by relative path;
\* its directories are the proper prefixes of its files.  A directory may be
\* named like a plan file.
PathsUpTo(n) == UNION {[1..k -> Names] : k \in 1..n}

DirsOf(files) == UNION {{SubSeq(f, 1, k) : k \in 1..(Len(f) - 1)} : f \in files}

ValidTree(files) ==
  /\ Cardinality(files) <= MaxFiles
  /\ files \cap DirsOf(files) = {}

Trees == {fs \in SUBSET PathsUpTo(MaxDepth) : ValidTree(fs)}

\* Entries of a tree, the root (<<>>) included.
Entries(files) == files \cup DirsOf(files) \cup {<<>>}

IsDirIn(files, rel) == rel = <<>> \/ rel \in DirsOf(files)

\* ------------------------------------------------------------ plan discovery

NewProject(repoFullName, path) == [RepoFullName |-> repoFullName, Path |-> path]

NoWalk == [plans |-> <<>>, err |-> FALSE]

\* The walk function with the environment left out of the name test: any
\* environment's plan file is taken.
WalkFn_AnyEnvironment(acc, repoDir, env, path, isDir, ioFailed) ==
  IF ioFailed THEN [acc EXCEPT !.err = TRUE]
  ELSE IF ~isDir /\ BaseName(path) \in {PlanFileName(e) : e \in Envs}
    THEN [acc EXCEPT !.plans = Append(@,
            [Project |-> NewProject(RepoFullName, Rel(repoDir, Dir(path))),
             LocalPath |-> path])]
    ELSE acc

\* The walk function Execute hands to filepath.Walk, called on one entry:
\* an entry whose lstat or directory read failed is passed with err set and
\* the function returns it; a non-directory named <env>.tfplan is appended.
WalkFn(acc, repoDir, env, path, isDir, ioFailed) ==
  IF ioFailed THEN [acc EXCEPT !.err = TRUE]
  ELSE IF ~isDir /\ BaseName(path) = PlanFileName(env)
    THEN [acc EXCEPT !.plans = Append(@,
            [Project |-> NewProject(RepoFullName, Rel(repoDir, Dir(path))),
             LocalPath |-> path])]
    ELSE acc

RECURSIVE WalkFrom(_, _, _, _, _, _)
RECURSIVE WalkChildren(_, _, _, _, _, _, _)

\* filepath.Walk below one entry: the entry itself, then, for a directory,
\* its children in lexical order; the first error ends the walk.
WalkFrom(acc, files, bad, repoDir, env, rel) ==
  LET path == Join(repoDir, rel)
      here == WalkFn(acc, repoDir, env, path, IsDirIn(files, rel), rel \in bad)
  IN IF here.err \/ ~IsDirIn(files, rel) THEN here
     ELSE WalkChildren(here, files, bad, repoDir, env, rel, 1)

WalkChildren(acc, files, bad, repoDir, env, rel, i) ==
  IF acc.err \/ i > Len(NameOrder) THEN acc
  ELSE LET child == Append(rel, NameOrder[i])
       IN IF child \in Entries(files)
          THEN WalkChildren(WalkFrom(acc, files, bad, repoDir, env, child),
                            files, bad, repoDir, env, rel, i + 1)
          ELSE WalkChildren(acc, files, bad, repoDir, env, rel, i + 1)

\* filepath.Walk(repoDir, fn): what the walk leaves in plans, and whether it
\* returned an error.
Walk(files, bad, repoDir, env) == WalkFrom(NoWalk, files, bad, repoDir, env, <<>>)

\* ------------------------------------------------------------ HTTP exchanges

StatusOK == 200

\* What one HTTP exchange can come to: the transport fails (the endpoint is
\* unreachable, the client's timeout expires), or a response arrives with a
\* status and a body.  A body is unreadable, not JSON, or JSON that says
\* approved or not approved.
Statuses == {StatusOK, 201, 302, 404, 500}
Bodies == {"read error", "not json", "approved:true", "approved:false"}
TransportFailures == {"unreachable", "timeout"}

HttpOutcomes ==
  [transport : TransportFailures, status : {0}, body : {NoStr}]
    \cup [transport : {"ok"}, status : Statuses, body : Bodies]

\* ioutil.ReadAll(resp.Body) returns an error.
ReadAllFails(body) == body = "read error"
\* json.Unmarshal(body, &v) returns an error.
UnmarshalFails(body) == body = "not json"
\* The Approved field of the decoded body.
DecodedApproved(body) == body = "approved:true"

Wrap(err, msg) == <<msg>> \o err

\* -------------------------------------------------- external approval gate

\* URLs the server can be configured with; http.NewRequest rejects the
\* second (url.Parse: missing protocol scheme).
GoodURL == "http://approvals.example/check"
BadURL == "://approvals.example/check"
ApprovalURLs == {GoodURL, BadURL}
NewRequestFails(url) == url = BadURL

\* checkExternalApproval returning json.Unmarshal's error for a body that
\* does not decode.
checkExternalApproval_UnmarshalError(url, o) ==
  IF NewRequestFails(url)
    THEN [panic |-> TRUE, approved |-> FALSE, err |-> NoErr]
  ELSE IF o.transport # "ok"
    THEN [panic |-> FALSE, approved |-> FALSE, err |-> <<o.transport>>]
  ELSE IF o.status = StatusOK
    THEN IF ReadAllFails(o.body)
           THEN [panic |-> FALSE, approved |-> FALSE, err |-> <<"read error">>]
         ELSE IF UnmarshalFails(o.body)
           THEN [panic |-> FALSE, approved |-> FALSE, err |-> <<"invalid json">>]
         ELSE IF DecodedApproved(o.body)
           THEN [panic |-> FALSE, approved |-> TRUE, err |-> NoErr]
         ELSE [panic |-> FALSE, approved |-> FALSE, err |-> NoErr]
  ELSE [panic |-> FALSE, approved |-> FALSE, err |-> NoErr]

\* checkExternalApproval.  NewRequest's error is tested only after
\* req.Header.Set has used req, which is nil when NewRequest failed: the
\* call panics.  Otherwise the pair (approved, err) it returns; on a body
\* that does not decode it returns the err of the ReadAll before it, nil.
checkExternalApproval(url, o) ==
  IF NewRequestFails(url)
    THEN [panic |-> TRUE, approved |-> FALSE, err |-> NoErr]
  ELSE IF o.transport # "ok"
    THEN [panic |-> FALSE, approved |-> FALSE, err |-> <<o.transport>>]
  ELSE IF o.status = StatusOK
    THEN IF ReadAllFails(o.body)
           THEN [panic |-> FALSE, approved |-> FALSE, err |-> <<"read error">>]
         ELSE IF UnmarshalFails(o.body)
           THEN [panic |-> FALSE, approved |-> FALSE, err |-> NoErr]
         ELSE IF DecodedApproved(o.body)
           THEN [panic |-> FALSE, approved |-> TRUE, err |-> NoErr]
         ELSE [panic |-> FALSE, approved |-> FALSE, err |-> NoErr]
  ELSE [panic |-> FALSE, approved |-> FALSE, err |-> NoErr]

\* ---------------------------------------------------------- Bitbucket client

NoPayload == <<>>

\* BitbucketClient.do: the request it sends and what it returns for an
\* exchange o.  bodyreader is declared and never assigned, so the request
\* carries no body; a payload only adds the Content-Type header.
BitbucketDo(method, endpoint, payload, o) ==
  LET req == [method |-> method, endpoint |-> endpoint, body |-> NoPayload,
              contentType |-> IF payload # NoPayload THEN "application/json" ELSE NoStr,
              basicAuth |-> TRUE, close |-> TRUE]
  IN IF o.transport # "ok"
       THEN [req |-> req, resp |-> FALSE, err |-> <<o.transport>>]
     ELSE IF o.status >= 400 \/ o.status < 200
       THEN IF ReadAllFails(o.body)
              THEN [req |-> req, resp |-> FALSE, err |-> <<"read error">>]
              ELSE [req |-> req, resp |-> TRUE, err |-> <<"bitbucketAPIError">>]
     ELSE [req |-> req, resp |-> TRUE, err |-> NoErr]

PullRequestURL(pull) ==
  <<"repositories", RepoOwner, RepoName, "pullrequests?q=id=", ToString(pull)>>

\* BitbucketClient.PullIsApproved: every return statement returns false.
BitbucketPullIsApproved(pull, o) ==
  LET d == BitbucketDo("GET", PullRequestURL(pull), NoPayload, o)
  IN IF d.err # NoErr THEN [req |-> d.req, approved |-> FALSE, err |-> d.err]
     ELSE IF ReadAllFails(o.body)
       THEN [req |-> d.req, approved |-> FALSE, err |-> <<"read error">>]
     ELSE IF UnmarshalFails(o.body)
       THEN [req |-> d.req, approved |-> FALSE, err |-> <<"invalid json">>]
     ELSE [req |-> d.req, approved |-> FALSE, err |-> NoErr]

\* The provider-agnostic CommitStatus values, and one value outside them.
CommitStatuses == {"Pending", "Success", "Failed"}
StatusInputs == CommitStatuses \cup {"Unrecognized"}

\* The switch over a bbState that starts as SUCCESSFUL.
BitbucketState_DefaultSuccessful(state) ==
  CASE state = "Pending" -> "INPROGRESS"
    [] state = "Success" -> "SUCCESSFUL"
    [] state = "Failed" -> "FAILED"
    [] OTHER -> "SUCCESSFUL"

\* The switch of UpdateStatus over a bbState that starts as FAILED.
BitbucketState(state) ==
  CASE state = "Pending" -> "INPROGRESS"
    [] state = "Success" -> "SUCCESSFUL"
    [] state = "Failed" -> "FAILED"
    [] OTHER -> "FAILED"

CommitStatusURL(commit) ==
  <<"repositories", RepoOwner, RepoName, "commit", commit, "statuses/build">>

\* BitbucketClient.UpdateStatus: the status it encodes, the request it
\* sends and the error it returns.
BitbucketUpdateStatus(commit, state, description, o) ==
  LET status == [Name |-> "Atlantis", State |-> BitbucketState(state),
                 Key |-> "FIXME", URL |-> "localhost:4141/bla",
                 Description |-> description]
      d == BitbucketDo("POST", CommitStatusURL(commit), <<status>>, o)
  IN [req |-> d.req, status |-> status, err |-> d.err]

\* A client of another provider, which src/ does not hold: it answers by
\* the contract of PullIsApproved (true iff approved; an error only when
\* the transport or the parse fails).
OtherPullIsApproved(o) ==
  IF o.transport # "ok" THEN [approved |-> FALSE, err |-> <<o.transport>>]
  ELSE IF o.status # StatusOK \/ ReadAllFails(o.body) \/ UnmarshalFails(o.body)
    THEN [approved |-> FALSE, err |-> <<"provider error">>]
  ELSE [approved |-> DecodedApproved(o.body), err |-> NoErr]

\* vcs.ClientProxy.PullIsApproved: the client of the pull request's host.
ProxyPullIsApproved(host, pull, o) ==
  IF host = "Bitbucket"
    THEN LET r == BitbucketPullIsApproved(pull, o)
         IN [approved |-> r.approved, err |-> r.err]
    ELSE OtherPullIsApproved(o)

\* ---------------------------------------------------------- ECS credentials

\* How many times the credentials are fetched or written.
MaxRefreshes == 2

RelativeURI == "/v2/credentials/task"
EcsURL(relative_uri) == "http://169.254.170.2" \o relative_uri

\* The EcsCredentials a response body can decode to.
NoCredentials ==
  [AccessKeyId |-> NoStr, Expiration |-> NoStr, RoleArn |-> NoStr,
   SecretAccessKey |-> NoStr, Token |-> NoStr]
CredentialSets ==
  [AccessKeyId : {"AKIA1", "AKIA2"}, Expiration : {"2018-01-01T00:00:00Z"},
   RoleArn : {"arn:aws:iam::1:role/atlantis"}, SecretAccessKey : {"secret"},
   Token : {"token"}]

\* Response bodies of the credentials endpoint: unreadable, not JSON, or
\* the JSON of one of the credential sets.
EcsBodies == {"read error", "not json", "credentials AKIA1", "credentials AKIA2"}
DecodeFails(body) == ReadAllFails(body) \/ UnmarshalFails(body)
DecodedCredentials(body) ==
  CHOOSE cr \in CredentialSets : body = "credentials " \o cr.AccessKeyId

\* The exchanges of httpClient.Get: the status is not looked at.
EcsOutcomes ==
  [transport : TransportFailures, status : {0}, body : {NoStr}]
    \cup [transport : {"ok"}, status : {StatusOK, 500}, body : EcsBodies]

\* What the file system does to os.MkdirAll and ioutil.WriteFile: a failed
\* write leaves the file as it was or truncated.
FsOutcomes == {"ok", "mkdir fails", "write fails", "write fails, truncated"}
MkdirFails(fs) == fs = "mkdir fails"
WriteFails(fs) == fs \in {"write fails", "write fails, truncated"}

\* The credentials file: absent, or present with its lines.
NoFile == [exists |-> FALSE, lines |-> <<>>]
EmptyFile == [exists |-> TRUE, lines |-> <<>>]

\* templateRendered, by its lines.
Rendered(credentials) ==
  <<"[default]",
    "aws_access_key_id=" \o credentials.AccessKeyId,
    "aws_secret_access_key=" \o credentials.SecretAccessKey,
    "aws_session_token=" \o credentials.Token>>

\* writeAwsCredentials over the file as it is: the file it leaves and the
\* error it returns.  After a failed write it returns err, the nil error of
\* MkdirAll, and not werr.
writeAwsCredentials(credentials, file, fs) ==
  IF MkdirFails(fs)
    THEN [file |-> file, err |-> <<"mkdir /home/atlantis/.aws">>]
  ELSE IF WriteFails(fs)
    THEN [file |-> IF fs = "write fails, truncated" THEN EmptyFile ELSE file,
          err |-> NoErr]
  ELSE [file |-> [exists |-> TRUE, lines |-> Rendered(credentials)], err |-> NoErr]

\* handleEcsCredentials for an exchange o of the GET.
handleEcsCredentials(relative_uri, file, o, fs) ==
  IF o.transport # "ok"
    THEN [credentials |-> NoCredentials, file |-> file, err |-> <<o.transport>>]
  ELSE IF DecodeFails(o.body)
    THEN [credentials |-> NoCredentials, file |-> file, err |-> <<"decode">>]
  ELSE LET w == writeAwsCredentials(DecodedCredentials(o.body), file, fs)
       IN [credentials |-> DecodedCredentials(o.body), file |-> w.file, err |-> w.err]

\* ------------------------------------------------------------------- state

VARIABLES
  RequireApproval,          \* ApplyExecutor.RequireApproval
  RequireExternalApproval,  \* ApplyExecutor.RequireExternalApproval
  ApprovalURL,              \* ApplyExecutor.ApprovalURL
  ctx,       \* per command: the CommandContext handed to Execute
  pc,        \* per command: where Execute stands
  calls,     \* per command: the collaborator calls made so far, in order
  extResp,   \* per command: what the approval endpoint answered
  ws,        \* per command: the workspace tree the plan scan read
  plans,     \* per command: Execute's plans
  results,   \* per command: Execute's results
  local,     \* per command: apply's preExecute, output and err
  whFailed,  \* per command: a Webhooks.Send of this command returned an error
  resp,      \* per command: the CommandResponse Execute returned
  bbCount,   \* how many calls the Bitbucket client has served
  bbSent,    \* the request the Bitbucket client sent last
  bbRet,     \* the last call of the Bitbucket client: its inputs and its return
  credFile,  \* /home/atlantis/.aws/credentials
  ecsCount,  \* how many credential calls have been served
  ecsRet     \* the last credential call: its inputs and its return

config == <<RequireApproval, RequireExternalApproval, ApprovalURL>>
cmdVars == <<ctx, pc, calls, extResp, ws, plans, results, local, whFailed, resp>>
bbVars == <<bbCount, bbSent, bbRet>>
ecsVars == <<credFile, ecsCount, ecsRet>>
vars == <<config, cmdVars, bbVars, ecsVars>>

NoResp == [Error |-> NoErr, Failure |-> NoStr, ProjectResults |-> <<>>]
NoExchange == [transport |-> "none", status |-> 0, body |-> NoStr]
NoTree == [files |-> {}, bad |-> {}]
NoLocal == [PostApply |-> <<>>, TerraformVersion |-> NoStr, output |-> NoStr, err |-> NoErr]
NoResult == [Path |-> <<>>, Error |-> NoErr, Failure |-> NoStr, ApplySuccess |-> NoStr]

Contexts ==
  [BaseRepo : {RepoFullName}, Pull : Pulls, VCSHost : Hosts,
   User : {UserName}, Environment : Envs]

\* The (repo, pull request, environment) key of a command's workspace.
Key(c) == <<ctx[c].BaseRepo, ctx[c].Pull, ctx[c].Environment>>

\* Workspace.GetWorkspace's directory for a key.
WorkspaceDir(c) == <<"repos", ctx[c].BaseRepo, ToString(ctx[c].Pull), ctx[c].Environment>>

Call(name, out, args, output) ==
  [call |-> name, out |-> out, args |-> args, output |-> output]

\* Execute returns r.
Return(c, r) ==
  /\ resp' = [resp EXCEPT ![c] = r]
  /\ pc' = [pc EXCEPT ![c] = "done"]

\* ------------------------------------------------------------------ Execute

\* What Execute does with the answer of a gate or of the scan: it returns a
\* response (stop) or goes on.
GoOn == [stop |-> FALSE, resp |-> NoResp]
StopWith(r) == [stop |-> TRUE, resp |-> r]

Outcome(r) ==
  IF r.err # NoErr THEN "error" ELSE IF r.approved THEN "approved" ELSE "not approved"

\* The gate without its test of approved.
ApprovalGate_ErrorOnly(r) ==
  IF r.err # NoErr
    THEN StopWith([NoResp EXCEPT !.Error =
           Wrap(r.err, "checking if pull request was approved")])
  ELSE GoOn

\* Execute on the pair (approved, err) of VCSClient.PullIsApproved.
ApprovalGate(r) ==
  IF r.err # NoErr
    THEN StopWith([NoResp EXCEPT !.Error =
           Wrap(r.err, "checking if pull request was approved")])
  ELSE IF ~r.approved
    THEN StopWith([NoResp EXCEPT !.Failure =
           "Pull request must be approved before running apply."])
  ELSE GoOn

\* Execute on the pair (approved, err) of checkExternalApproval.
ExternalGate(r) ==
  IF r.err # NoErr
    THEN StopWith([NoResp EXCEPT !.Error =
           Wrap(r.err, "checking if pull request was approved (external)")])
  ELSE IF ~r.approved
    THEN StopWith([NoResp EXCEPT !.Failure =
           "Pull request must be approved before running apply. (external)"])
  ELSE GoOn

\* The scan's outcome without the test for zero plans: Execute returns the
\* empty result list.
ScanGate_NoEmptyTest(w) ==
  IF w.err
    THEN StopWith([NoResp EXCEPT !.Error = Wrap(<<"io error">>, "finding plans")])
  ELSE IF Len(w.plans) = 0
    THEN StopWith(NoResp)
  ELSE GoOn

\* Execute on what filepath.Walk returned and left in plans.
ScanGate(w) ==
  IF w.err
    THEN StopWith([NoResp EXCEPT !.Error = Wrap(<<"io error">>, "finding plans")])
  ELSE IF Len(w.plans) = 0
    THEN StopWith([NoResp EXCEPT !.Failure = "No plans found for that environment."])
  ELSE GoOn

\* Execute returns g.resp, or goes on to the stage next.
Proceed(c, g, next) ==
  IF g.stop THEN Return(c, g.resp)
  ELSE /\ pc' = [pc EXCEPT ![c] = next]
       /\ UNCHANGED resp

\* Execute, the RequireApproval gate.
CheckApproval(c) ==
  /\ pc[c] = "start"
  /\ IF RequireApproval
       THEN \E o \in HttpOutcomes :
              LET r == ProxyPullIsApproved(ctx[c].VCSHost, ctx[c].Pull, o)
              IN /\ calls' = [calls EXCEPT ![c] =
                      Append(@, Call("VCSClient.PullIsApproved", Outcome(r), <<>>, NoStr))]
                 /\ Proceed(c, ApprovalGate(r), "external")
       ELSE /\ pc' = [pc EXCEPT ![c] = "external"]
            /\ UNCHANGED <<calls, resp>>
  /\ UNCHANGED <<config, ctx, extResp, ws, plans, results, local, whFailed, bbVars, ecsVars>>

\* Execute, the RequireExternalApproval gate.  When http.NewRequest fails
\* no exchange takes place and the call panics.
CheckExternal(c) ==
  /\ pc[c] = "external"
  /\ IF RequireExternalApproval
       THEN \E o \in (IF NewRequestFails(ApprovalURL) THEN {NoExchange} ELSE HttpOutcomes) :
              LET r == checkExternalApproval(ApprovalURL, o)
              IN IF r.panic
                   THEN /\ pc' = [pc EXCEPT ![c] = "panicked"]
                        /\ UNCHANGED <<calls, extResp, resp>>
                   ELSE /\ calls' = [calls EXCEPT ![c] =
                             Append(@, Call("ApprovalURL.POST", Outcome(r), <<>>, NoStr))]
                        /\ extResp' = [extResp EXCEPT ![c] = o]
                        /\ Proceed(c, ExternalGate(r), "workspace")
       ELSE /\ pc' = [pc EXCEPT ![c] = "workspace"]
            /\ UNCHANGED <<calls, extResp, resp>>
  /\ UNCHANGED <<config, ctx, ws, plans, results, local, whFailed, bbVars, ecsVars>>

\* Execute, Workspace.GetWorkspace: any error is answered with the
\* "No workspace found" failure.
GetWorkspace(c) ==
  /\ pc[c] = "workspace"
  /\ \E found \in BOOLEAN :
       /\ calls' = [calls EXCEPT ![c] =
            Append(@, Call("Workspace.GetWorkspace",
                           IF found THEN "found" ELSE "error", <<>>, NoStr))]
       /\ Proceed(c, IF found THEN GoOn
                     ELSE StopWith([NoResp EXCEPT !.Failure =
                            "No workspace found. Did you run plan?"]), "walk")
  /\ UNCHANGED <<config, ctx, extResp, ws, plans, results, local, whFailed, bbVars, ecsVars>>

\* Execute, the plan scan: filepath.Walk over the workspace as it is on
\* disk (one of trees), with at most one entry whose lstat or directory read
\* fails.
FindPlans(c, trees) ==
  /\ pc[c] = "walk"
  /\ \E files \in trees :
     \E bad \in {{}} \cup {{e} : e \in Entries(files)} :
       LET w == Walk(files, bad, WorkspaceDir(c), ctx[c].Environment)
       IN /\ ws' = [ws EXCEPT ![c] = [files |-> files, bad |-> bad]]
          /\ plans' = [plans EXCEPT ![c] = w.plans]
          /\ calls' = [calls EXCEPT ![c] =
               Append(@, Call("filepath.Walk", IF w.err THEN "error" ELSE "ok", <<>>, NoStr))]
          /\ Proceed(c, ScanGate(w), "pre")
  /\ UNCHANGED <<config, ctx, extResp, results, local, whFailed, bbVars, ecsVars>>

\* -------------------------------------------------------------------- apply

\* The plan the loop of Execute is at.
CurrentPlan(c) == plans[c][Len(results[c]) + 1]

\* filepath.Join(repoDir, plan.Project.Path)
AbsolutePath(c) == Join(WorkspaceDir(c), CurrentPlan(c).Project.Path)

\* The loop leaving at the first project whose result is an error.
LoopStep_AbortOnError(c, result) ==
  LET rs == Append(results[c], [result EXCEPT !.Path = CurrentPlan(c).LocalPath])
      last == Len(rs) = Len(plans[c]) \/ result.Error # NoErr
  IN [results |-> rs,
      pc |-> IF last THEN "done" ELSE "pre",
      resp |-> IF last THEN [NoResp EXCEPT !.ProjectResults = rs] ELSE resp[c]]

\* The loop of Execute once apply has returned result for the current
\* plan: the plan's local path is attached, the result appended, and the
\* loop goes on to the next plan or Execute returns all the results.
LoopStep(c, result) ==
  LET rs == Append(results[c], [result EXCEPT !.Path = CurrentPlan(c).LocalPath])
      last == Len(rs) = Len(plans[c])
  IN [results |-> rs,
      pc |-> IF last THEN "done" ELSE "pre",
      resp |-> IF last THEN [NoResp EXCEPT !.ProjectResults = rs] ELSE resp[c]]

ApplyReturns(c, result) ==
  LET n == LoopStep(c, result)
  IN /\ results' = [results EXCEPT ![c] = n.results]
     /\ pc' = [pc EXCEPT ![c] = n.pc]
     /\ resp' = [resp EXCEPT ![c] = n.resp]

\* What ProjectPreExecute.Execute can come to: a ProjectResult of its own,
\* or the config of a project without a config file (no hooks, no pinned
\* Terraform version), or the config of a project whose file lists
\* post-apply hooks and pins the version.
PreOutcomes == {"failure", "ok", "ok+hooks"}

PinnedVersion == "0.11.7"

\* preExecute.ProjectConfig.PostApply and preExecute.TerraformVersion.
PreExecuteConfig(o) ==
  IF o = "ok+hooks"
    THEN [PostApply |-> <<"post-apply command">>, TerraformVersion |-> PinnedVersion]
    ELSE [PostApply |-> <<>>, TerraformVersion |-> NoStr]

PreExecuteResult(o) ==
  IF o = "failure" THEN [NoResult EXCEPT !.Failure = "pre-execute failure"]
  ELSE NoResult

\* apply, ProjectPreExecute.Execute: a non-empty ProjectResult is returned
\* as it is.
PreExecute(c) ==
  /\ pc[c] = "pre"
  /\ \E o \in PreOutcomes :
       /\ calls' = [calls EXCEPT ![c] =
            Append(@, Call("ProjectPreExecute.Execute", o, CurrentPlan(c).Project.Path, NoStr))]
       /\ IF PreExecuteResult(o) # NoResult
            THEN /\ ApplyReturns(c, PreExecuteResult(o))
                 /\ UNCHANGED local
            ELSE /\ local' = [local EXCEPT ![c] =
                      [NoLocal EXCEPT !.PostApply = PreExecuteConfig(o).PostApply,
                                      !.TerraformVersion = PreExecuteConfig(o).TerraformVersion]]
                 /\ pc' = [pc EXCEPT ![c] = "terraform"]
                 /\ UNCHANGED <<results, resp>>
  /\ UNCHANGED <<config, ctx, extResp, ws, plans, whFailed, bbVars, ecsVars>>

\* What Terraform.RunCommandWithVersion can come to: it succeeds with or
\* without output, or fails with output.
TfOutcomes ==
  [err : {NoErr}, output : {NoStr, "terraform output"}]
    \cup [err : {<<"exit status 1">>}, output : {"terraform output"}]

\* apply, the Terraform run.
RunTerraform(c) ==
  /\ pc[c] = "terraform"
  /\ \E o \in TfOutcomes :
       /\ calls' = [calls EXCEPT ![c] =
            Append(@, Call("Terraform.RunCommandWithVersion",
                           IF o.err = NoErr THEN "ok" ELSE "error", AbsolutePath(c), o.output))]
       /\ local' = [local EXCEPT ![c].output = o.output, ![c].err = o.err]
  /\ pc' = [pc EXCEPT ![c] = "webhook"]
  /\ UNCHANGED <<config, ctx, extResp, ws, plans, results, whFailed, resp, bbVars, ecsVars>>

\* The event with Success set whatever the Terraform run returned.
ApplyEvent_AlwaysSuccess(c) ==
  <<ctx[c].Environment, ctx[c].User, ctx[c].BaseRepo, ToString(ctx[c].Pull), "success">>

\* The ApplyResult event apply hands to Webhooks.Send.
ApplyEvent(c) ==
  <<ctx[c].Environment, ctx[c].User, ctx[c].BaseRepo, ToString(ctx[c].Pull),
    IF local[c].err = NoErr THEN "success" ELSE "no success">>

\* apply returning the error of Webhooks.Send as the project's error.
AfterWebhook_Escalates(c, sendErr) ==
  IF sendErr # NoErr
    THEN [hooks |-> FALSE,
          result |-> [NoResult EXCEPT !.Error = Wrap(sendErr, "sending webhook")]]
  ELSE IF local[c].err # NoErr
    THEN [hooks |-> FALSE,
          result |-> [NoResult EXCEPT !.Error = local[c].err \o <<local[c].output>>]]
  ELSE IF Len(local[c].PostApply) > 0
    THEN [hooks |-> TRUE, result |-> NoResult]
  ELSE [hooks |-> FALSE, result |-> [NoResult EXCEPT !.ApplySuccess = local[c].output]]

\* apply after Webhooks.Send has returned sendErr, which it does not read:
\* the Terraform error becomes the result, or the post-apply hooks are
\* next, or the output is the result.
AfterWebhook(c, sendErr) ==
  IF local[c].err # NoErr
    THEN [hooks |-> FALSE,
          result |-> [NoResult EXCEPT !.Error = local[c].err \o <<local[c].output>>]]
  ELSE IF Len(local[c].PostApply) > 0
    THEN [hooks |-> TRUE, result |-> NoResult]
  ELSE [hooks |-> FALSE, result |-> [NoResult EXCEPT !.ApplySuccess = local[c].output]]

\* apply, the webhook and what follows it up to the next call.
SendWebhook(c) ==
  /\ pc[c] = "webhook"
  /\ \E sendErr \in {NoErr, <<"sink unreachable">>} :
       /\ calls' = [calls EXCEPT ![c] = Append(@, Call("Webhooks.Send", "sent", ApplyEvent(c), NoStr))]
       /\ whFailed' = [whFailed EXCEPT ![c] = @ \/ sendErr # NoErr]
       /\ LET n == AfterWebhook(c, sendErr)
          IN IF n.hooks
               THEN /\ pc' = [pc EXCEPT ![c] = "hooks"]
                    /\ UNCHANGED <<results, resp>>
               ELSE ApplyReturns(c, n.result)
  /\ UNCHANGED <<config, ctx, extResp, ws, plans, local, bbVars, ecsVars>>

\* apply with the error of Run.Execute dropped.
AfterPostApply_IgnoresHookError(c, hookErr) ==
  [NoResult EXCEPT !.ApplySuccess = local[c].output]

\* The arguments apply gives Run.Execute besides the PostApply commands:
\* env and terraformVersion, then absolutePath.
HookArgs(c) ==
  <<ctx[c].Environment, local[c].TerraformVersion>> \o AbsolutePath(c)

\* apply after Run.Execute has returned hookErr.
AfterPostApply(c, hookErr) ==
  IF hookErr # NoErr
    THEN [NoResult EXCEPT !.Error = Wrap(hookErr, "running post apply commands")]
    ELSE [NoResult EXCEPT !.ApplySuccess = local[c].output]

\* apply, the post-apply hooks.
RunPostApply(c) ==
  /\ pc[c] = "hooks"
  /\ \E hookErr \in {NoErr, <<"exit status 2">>} :
       /\ calls' = [calls EXCEPT ![c] =
            Append(@, Call("Run.Execute", IF hookErr = NoErr THEN "ok" ELSE "error",
                           HookArgs(c), NoStr))]
       /\ ApplyReturns(c, AfterPostApply(c, hookErr))
  /\ UNCHANGED <<config, ctx, extResp, ws, plans, local, whFailed, bbVars, ecsVars>>

\* ------------------------------------------------------------ specifications

\* The server's flags: cmd/server.go's validate refuses
\* --require-external-approval without --approval-url.
NoURL == ""
Configs ==
  {cf \in [ra : BOOLEAN, rea : BOOLEAN, url : ApprovalURLs \cup {NoURL}] :
     cf.rea <=> cf.url # NoURL}

InitConfig ==
  \E cf \in Configs :
    /\ RequireApproval = cf.ra
    /\ RequireExternalApproval = cf.rea
    /\ ApprovalURL = cf.url

\* Locals of commands at the start of Execute.
InitLocals ==
  /\ calls = [c \in Cmds |-> <<>>]
  /\ extResp = [c \in Cmds |-> NoExchange]
  /\ ws = [c \in Cmds |-> NoTree]
  /\ plans = [c \in Cmds |-> <<>>]
  /\ results = [c \in Cmds |-> <<>>]
  /\ local = [c \in Cmds |-> NoLocal]
  /\ whFailed = [c \in Cmds |-> FALSE]
  /\ resp = [c \in Cmds |-> NoResp]

NoRequest == [method |-> NoStr, endpoint |-> <<>>, body |-> NoPayload,
              contentType |-> NoStr, basicAuth |-> FALSE, close |-> FALSE]
NoCall == [op |-> NoStr]

InitBitbucket ==
  /\ bbCount = 0
  /\ bbSent = NoRequest
  /\ bbRet = NoCall

InitEcs ==
  /\ credFile = NoFile
  /\ ecsCount = 0
  /\ ecsRet = NoCall

\* One command: command 1 is at the start of Execute, command 2 never comes.
Init ==
  /\ InitConfig
  /\ \E x \in Contexts :
       /\ x.Pull = 1
       /\ ctx = [c \in Cmds |-> x]
  /\ pc = [c \in Cmds |-> IF c = 1 THEN "start" ELSE "idle"]
  /\ InitLocals
  /\ InitBitbucket
  /\ InitEcs

Step(c, trees) ==
  \/ CheckApproval(c)
  \/ CheckExternal(c)
  \/ GetWorkspace(c)
  \/ FindPlans(c, trees)
  \/ PreExecute(c)
  \/ RunTerraform(c)
  \/ SendWebhook(c)
  \/ RunPostApply(c)

Next == \E c \in Cmds : Step(c, Trees)

Spec == Init /\ [][Next]_vars

\* Two commands run Execute concurrently, on the same key or on keys that
\* differ in the pull request or in the environment; their workspaces hold
\* at most one file.
SmallTrees == {fs \in Trees : Cardinality(fs) <= 1 /\ \A f \in fs : Len(f) = 1}

InitConc ==
  /\ InitConfig
  /\ ~RequireExternalApproval
  /\ ctx \in [Cmds -> {x \in Contexts : x.VCSHost = "Github"}]
  /\ ctx[1].Pull = 1 /\ ctx[1].Environment = "staging"
  /\ pc = [c \in Cmds |-> "start"]
  /\ InitLocals
  /\ InitBitbucket
  /\ InitEcs

NextConc == \E c \in Cmds : Step(c, SmallTrees)

SpecConc == InitConc /\ [][NextConc]_vars

\* Two runs of Execute on the same command, one after the other, over a
\* workspace of two plans; the approval gates are off.
PairTrees == {{<<"prod.tfplan", "staging.tfplan">>, <<"staging.tfplan">>}}

InitPair ==
  /\ RequireApproval = FALSE
  /\ RequireExternalApproval = FALSE
  /\ ApprovalURL = NoURL
  /\ ctx = [c \in Cmds |-> [BaseRepo |-> RepoFullName, Pull |-> 1, VCSHost |-> "Github",
                             User |-> UserName, Environment |-> "staging"]]
  /\ pc = [c \in Cmds |-> "start"]
  /\ InitLocals
  /\ InitBitbucket
  /\ InitEcs

NextPair ==
  \/ Step(1, PairTrees)
  \/ pc[1] = "done" /\ Step(2, PairTrees)

SpecPair == InitPair /\ [][NextPair]_vars

\* --------------------------------------------------- Bitbucket client calls

Descriptions == {"Plan Success", "Apply Failed"}

\* A call of BitbucketClient.PullIsApproved.
CallPullIsApproved ==
  /\ bbCount < MaxRequests
  /\ \E pull \in Pulls, o \in HttpOutcomes :
       LET r == BitbucketPullIsApproved(pull, o)
       IN /\ bbSent' = r.req
          /\ bbRet' = [op |-> "PullIsApproved", pull |-> pull, exchange |-> o,
                        approved |-> r.approved, err |-> r.err]
  /\ bbCount' = bbCount + 1
  /\ UNCHANGED <<config, cmdVars, ecsVars>>

\* A call of BitbucketClient.UpdateStatus.
CallUpdateStatus ==
  /\ bbCount < MaxRequests
  /\ \E state \in StatusInputs, description \in Descriptions, o \in HttpOutcomes :
       LET r == BitbucketUpdateStatus(HeadCommit, state, description, o)
       IN /\ bbSent' = r.req
          /\ bbRet' = [op |-> "UpdateStatus", state |-> state,
                        description |-> description, exchange |-> o,
                        status |-> r.status, err |-> r.err]
  /\ bbCount' = bbCount + 1
  /\ UNCHANGED <<config, cmdVars, ecsVars>>

\* The Bitbucket client alone: no command runs.
InitVcs ==
  /\ RequireApproval = FALSE
  /\ RequireExternalApproval = FALSE
  /\ ApprovalURL = NoURL
  /\ ctx = [c \in Cmds |-> CHOOSE x \in Contexts : x.Pull = 1]
  /\ pc = [c \in Cmds |-> "idle"]
  /\ InitLocals
  /\ InitBitbucket
  /\ InitEcs

NextVcs == CallPullIsApproved \/ CallUpdateStatus

SpecVcs == InitVcs /\ [][NextVcs]_vars

\* ---------------------------------------------------- credential calls

\* A call of handleEcsCredentials.
CallHandleEcsCredentials ==
  /\ ecsCount < MaxRefreshes
  /\ \E o \in EcsOutcomes, fs \in FsOutcomes :
       LET r == handleEcsCredentials(RelativeURI, credFile, o, fs)
       IN /\ credFile' = r.file
          /\ ecsRet' = [op |-> "handleEcsCredentials", url |-> EcsURL(RelativeURI),
                         exchange |-> o, fs |-> fs,
                         credentials |-> r.credentials, err |-> r.err]
  /\ ecsCount' = ecsCount + 1
  /\ UNCHANGED <<config, cmdVars, bbVars>>

\* A call of writeAwsCredentials.
CallWriteAwsCredentials ==
  /\ ecsCount < MaxRefreshes
  /\ \E credentials \in CredentialSets, fs \in FsOutcomes :
       LET r == writeAwsCredentials(credentials, credFile, fs)
       IN /\ credFile' = r.file
          /\ ecsRet' = [op |-> "writeAwsCredentials", fs |-> fs,
                         credentials |-> credentials, err |-> r.err]
  /\ ecsCount' = ecsCount + 1
  /\ UNCHANGED <<config, cmdVars, bbVars>>

\* The credentials code alone: no command runs.
NextEcs == CallHandleEcsCredentials \/ CallWriteAwsCredentials

SpecEcs == InitVcs /\ [][NextEcs]_vars

\* ------------------------------------------------------------------- claims

ApprovalFailure == "Pull request must be approved before running apply."
ExternalFailure == "Pull request must be approved before running apply. (external)"
ExternalErrorText == "checking if pull request was approved (external)"
NoPlansFailure == "No plans found for that environment."

\* The calls of one collaborator in a command's log.
CallsOf(c, name) == SelectSeq(calls[c], LAMBDA e : e.call = name)
Called(c, name) == \E i \in 1..Len(calls[c]) : calls[c][i].call = name

\* The plan scan of c ended without an error.
ScanSucceeded(c) ==
  \E i \in 1..Len(calls[c]) : calls[c][i].call = "filepath.Walk" /\ calls[c][i].out = "ok"

\* Execute of c returned at the RequireApproval gate.
StoppedAtApproval(c) ==
  /\ pc[c] = "done"
  /\ calls[c] # <<>>
  /\ Last(calls[c]).call = "VCSClient.PullIsApproved"

\* C1: when RequireApproval is set and PullIsApproved answers "not approved"
\* without an error, Execute has returned the fixed approval failure and
\* the approval query is the only call the execution ever makes: no
\* Terraform run, hook, external approval call, workspace lookup or webhook.
C1_UnapprovedNeverRuns ==
  \A c \in Cmds :
    (/\ RequireApproval
     /\ calls[c] # <<>>
     /\ calls[c][1].call = "VCSClient.PullIsApproved"
     /\ calls[c][1].out = "not approved")
    => /\ pc[c] = "done"
       /\ resp[c] = [Error |-> NoErr, Failure |-> ApprovalFailure, ProjectResults |-> <<>>]
       /\ Len(calls[c]) = 1
       /\ extResp[c] = NoExchange
       /\ results[c] = <<>>

C1_Witness ==
  \E c \in Cmds :
    /\ RequireApproval /\ RequireExternalApproval
    /\ ctx[c].VCSHost = "Github"
    /\ pc[c] = "done"
    /\ Len(calls[c]) = 1
    /\ calls[c][1].out = "not approved"
    /\ resp[c].Failure = ApprovalFailure

\* The approval endpoint answered c, and not with a 200 whose body cannot
\* be read (a failure of the transfer).
AnsweredReadably(c) ==
  /\ extResp[c].transport = "ok"
  /\ ~(extResp[c].status = 200 /\ extResp[c].body = "read error")

GrantingAnswer(c) ==
  /\ extResp[c].transport = "ok"
  /\ extResp[c].status = 200
  /\ extResp[c].body = "approved:true"

\* C2: with RequireExternalApproval, every answer of the approval endpoint
\* other than 200 with Approved=true (500, any other non-200 status, 200
\* with Approved=false, 200 with a body that does not decode) makes Execute
\* return the fixed external failure, a Failure and not an Error, with the
\* POST its last call (Terraform never runs); and a command gets past the
\* gate only on 200 with Approved=true.
C2_ExternalGateFailsClosed ==
  \A c \in Cmds :
    /\ (RequireExternalApproval /\ AnsweredReadably(c) /\ ~GrantingAnswer(c))
       => /\ pc[c] = "done"
          /\ resp[c] = [Error |-> NoErr, Failure |-> ExternalFailure, ProjectResults |-> <<>>]
          /\ Last(calls[c]).call = "ApprovalURL.POST"
          /\ ~Called(c, "Terraform.RunCommandWithVersion")
    /\ (RequireExternalApproval
          /\ (pc[c] \in {"workspace", "walk", "pre", "terraform", "webhook", "hooks"}
                \/ Called(c, "Workspace.GetWorkspace")))
       => GrantingAnswer(c)

C2_Witness ==
  \E c \in Cmds :
    /\ RequireExternalApproval
    /\ extResp[c].transport = "ok"
    /\ extResp[c].status = 200
    /\ extResp[c].body = "not json"
    /\ pc[c] = "done"
    /\ resp[c].Failure = ExternalFailure

\* C3: once the scan has found N >= 1 plans, Execute runs apply for each of
\* them in the order of discovery (the i-th pre-execute call is for the
\* i-th plan's project), the i-th result carries the i-th plan's local
\* path, no result ends the loop early, and Execute returns exactly the N
\* results with no top-level error or failure.
C3_EveryPlanGetsAResult ==
  \A c \in Cmds :
    (ScanSucceeded(c) /\ Len(plans[c]) >= 1)
    => LET pre == CallsOf(c, "ProjectPreExecute.Execute")
           inApply == pc[c] \in {"terraform", "webhook", "hooks"}
       IN /\ pc[c] \in {"pre", "terraform", "webhook", "hooks", "done"}
          /\ Len(results[c]) <= Len(plans[c])
          /\ (pc[c] = "done") <=> (Len(results[c]) = Len(plans[c]))
          /\ \A i \in 1..Len(results[c]) : results[c][i].Path = plans[c][i].LocalPath
          /\ Len(pre) = Len(results[c]) + (IF inApply THEN 1 ELSE 0)
          /\ \A i \in 1..Len(pre) : pre[i].args = plans[c][i].Project.Path
          /\ pc[c] = "done"
               => resp[c] = [Error |-> NoErr, Failure |-> NoStr, ProjectResults |-> results[c]]

C3_Witness ==
  \E c \in Cmds :
    /\ pc[c] = "done"
    /\ Len(plans[c]) = MaxFiles
    /\ Len(resp[c].ProjectResults) = MaxFiles
    /\ resp[c].ProjectResults[1].Error = <<"exit status 1", "terraform output">>
    /\ \A i \in 2..MaxFiles : resp[c].ProjectResults[i].ApplySuccess # NoStr

\* C4: a scan that succeeds leaves in plans exactly the files of the
\* workspace named <environment>.tfplan, each once, at any depth: no other
\* environment's plan file and no directory of that name; each plan's
\* project has the base repo's full name and the directory of the plan file
\* relative to the workspace root.
C4_DiscoveryIsExact ==
  \A c \in Cmds :
    ScanSucceeded(c)
    => LET root == <<"repos", ctx[c].BaseRepo, ToString(ctx[c].Pull), ctx[c].Environment>>
           wanted == {f \in ws[c].files : f[Len(f)] = ctx[c].Environment \o ".tfplan"}
       IN /\ {plans[c][i].LocalPath : i \in 1..Len(plans[c])} = {root \o f : f \in wanted}
          /\ Len(plans[c]) = Cardinality(wanted)
          /\ \A i \in 1..Len(plans[c]) :
               /\ plans[c][i].Project.RepoFullName = ctx[c].BaseRepo
               /\ root \o plans[c][i].Project.Path
                    = SubSeq(plans[c][i].LocalPath, 1, Len(plans[c][i].LocalPath) - 1)

C4_Witness ==
  \E c \in Cmds :
    /\ ScanSucceeded(c)
    /\ ctx[c].Environment = "staging"
    /\ ws[c].files = {<<"staging.tfplan", "staging.tfplan">>, <<"prod.tfplan">>}
    /\ Len(plans[c]) = 1
    /\ plans[c][1].Project.Path = <<"staging.tfplan">>

\* C5: a response Execute has returned with a top-level Error or Failure
\* has no project results (also when the scan failed after it had found
\* plans), never has both, and has at least one project result when it has
\* neither; a scan that succeeds with no plan is answered with the
\* "No plans found" failure.
C5_ResponseShape ==
  \A c \in Cmds :
    pc[c] = "done"
    => /\ (resp[c].Error # NoErr \/ resp[c].Failure # NoStr) => resp[c].ProjectResults = <<>>
       /\ ~(resp[c].Error # NoErr /\ resp[c].Failure # NoStr)
       /\ (resp[c].Error = NoErr /\ resp[c].Failure = NoStr) => Len(resp[c].ProjectResults) >= 1
       /\ (ScanSucceeded(c) /\ plans[c] = <<>>)
            => resp[c] = [Error |-> NoErr, Failure |-> NoPlansFailure, ProjectResults |-> <<>>]

C5_Witness ==
  \E c \in Cmds :
    /\ pc[c] = "done"
    /\ Len(plans[c]) >= 1
    /\ ws[c].bad # {}
    /\ resp[c].Error = <<"finding plans", "io error">>
    /\ resp[c].ProjectResults = <<>>

\* c is in the part of Execute that uses the workspace: the plan scan, the
\* Terraform run and the post-apply hooks of its projects.
InWorkspaceSection(c) == pc[c] \in {"walk", "pre", "terraform", "webhook", "hooks"}

\* C6: two commands with the same (repo, pull request, environment) key are
\* never both in the part of Execute that uses the workspace.
C6_WorkspaceMutualExclusion ==
  \A c1, c2 \in Cmds :
    (c1 # c2 /\ Key(c1) = Key(c2)) => ~(InWorkspaceSection(c1) /\ InWorkspaceSection(c2))

\* C7: two runs of Execute on the same command that got the same answers
\* from every collaborator, whatever Webhooks.Send returned in either,
\* return the same CommandResponse, project result for project result.
C7_WebhookNonInterference ==
  (/\ pc[1] = "done" /\ pc[2] = "done"
   /\ ctx[1] = ctx[2]
   /\ calls[1] = calls[2]
   /\ extResp[1] = extResp[2]
   /\ ws[1] = ws[2])
  => /\ resp[1] = resp[2]
     /\ results[1] = results[2]

C7_Witness ==
  /\ pc[1] = "done" /\ pc[2] = "done"
  /\ calls[1] = calls[2]
  /\ whFailed[1] /\ ~whFailed[2]
  /\ Len(CallsOf(1, "Webhooks.Send")) = 2
  /\ Len(resp[1].ProjectResults) = 2
  /\ \A i \in 1..2 : resp[1].ProjectResults[i].ApplySuccess = "terraform output"
  /\ resp[1] = resp[2]

\* C8: when the provider's answer to PullIsApproved arrives and parses, the
\* call returns whether the pull request was approved, with a nil error;
\* it returns an error only when the exchange or the parse failed.
C8_PullIsApprovedReportsApproval ==
  bbRet.op = "PullIsApproved"
  => LET o == bbRet.exchange
         parsed == /\ o.transport = "ok"
                   /\ o.status >= 200 /\ o.status < 400
                   /\ o.body \in {"approved:true", "approved:false"}
     IN /\ parsed => (bbRet.err = NoErr /\ bbRet.approved = (o.body = "approved:true"))
        /\ bbRet.err # NoErr => ~parsed

\* C9: UpdateStatus encodes Pending as INPROGRESS, Success as SUCCESSFUL
\* and Failed as FAILED, and any other input state as FAILED, never as
\* SUCCESSFUL or INPROGRESS.
C9_StatusMapping ==
  bbRet.op = "UpdateStatus"
  => /\ bbRet.state = "Pending" => bbRet.status.State = "INPROGRESS"
     /\ bbRet.state = "Success" => bbRet.status.State = "SUCCESSFUL"
     /\ bbRet.state = "Failed" => bbRet.status.State = "FAILED"
     /\ bbRet.state \notin {"Pending", "Success", "Failed"} => bbRet.status.State = "FAILED"

C9_Witness ==
  /\ bbRet.op = "UpdateStatus"
  /\ bbRet.state = "Unrecognized"
  /\ bbRet.status.State = "FAILED"
  /\ bbSent.method = "POST"

\* Execute of c has entered the RequireExternalApproval gate and left it.
LeftExternalGate(c) ==
  /\ RequireExternalApproval
  /\ pc[c] \notin {"idle", "start", "external"}
  /\ ~StoppedAtApproval(c)

\* C10: with RequireExternalApproval, when the approval request cannot be
\* built, the endpoint cannot be reached, the timeout expires or the body
\* cannot be read, Execute returns a top-level Error wrapped "checking if
\* pull request was approved (external)", no Failure, it does not crash,
\* and Terraform never runs.
C10_TransportFailureIsError ==
  \A c \in Cmds :
    (/\ LeftExternalGate(c)
     /\ \/ ApprovalURL = "://approvals.example/check"
        \/ extResp[c].transport \in {"unreachable", "timeout"}
        \/ extResp[c].status = 200 /\ extResp[c].body = "read error")
    => /\ pc[c] = "done"
       /\ resp[c].Error # NoErr
       /\ resp[c].Error[1] = ExternalErrorText
       /\ resp[c].Failure = NoStr
       /\ resp[c].ProjectResults = <<>>
       /\ ~Called(c, "Terraform.RunCommandWithVersion")

\* How many of ApplySuccess, Failure and Error a ProjectResult has populated.
Populated(r) ==
  (IF r.ApplySuccess # NoStr THEN 1 ELSE 0)
    + (IF r.Failure # NoStr THEN 1 ELSE 0)
    + (IF r.Error # NoErr THEN 1 ELSE 0)

\* C11: every ProjectResult in the CommandResponse Execute returned has
\* exactly one of ApplySuccess, Failure and Error populated, also when
\* Terraform succeeded with empty output and when the result came from
\* ProjectPreExecute.
C11_ExactlyOnePopulated ==
  \A c \in Cmds :
    pc[c] = "done"
      => \A i \in 1..Len(resp[c].ProjectResults) :
           Populated(resp[c].ProjectResults[i]) = 1

\* Execute of c returned at a top-level gate: a response with an Error or a
\* Failure.
StoppedAtGate(c) ==
  pc[c] = "done" /\ (resp[c].Error # NoErr \/ resp[c].Failure # NoStr)

\* The event of the Terraform run logged at i: environment, user, base
\* repo, pull request and whether the run returned no error.
EventOfRun(c, i) ==
  <<ctx[c].Environment, ctx[c].User, ctx[c].BaseRepo, ToString(ctx[c].Pull),
    IF calls[c][i].out = "ok" THEN "success" ELSE "no success">>

ProjectNo(c, i) ==
  Cardinality({j \in 1..i : calls[c][j].call = "ProjectPreExecute.Execute"})

\* apply has returned for the project whose ProjectPreExecute call, logged
\* at i, returned a config.
AppliedAt(c, i) ==
  /\ calls[c][i].call = "ProjectPreExecute.Execute"
  /\ calls[c][i].out # "failure"
  /\ ProjectNo(c, i) <= Len(results[c])

\* Run.Execute was called for the project whose ProjectPreExecute call is
\* logged at i.
HooksRunAt(c, i) ==
  i + 3 <= Len(calls[c]) /\ calls[c][i + 3].call = "Run.Execute"

\* C13: in apply, Run.Execute is called, in the project's absolute
\* directory with the environment and the resolved Terraform version, if
\* and only if Terraform returned no error and the project's PostApply is
\* non-empty; when the hooks fail the project's result is an Error although
\* Terraform succeeded; when Terraform fails the result is an Error made of
\* the error message and the output, and no hook runs; otherwise the result
\* is ApplySuccess with the output.
C13_PostApplyHooks ==
  \A c \in Cmds :
    \A i \in 1..Len(calls[c]) :
      AppliedAt(c, i) =>
        LET pre == calls[c][i]
            tf == calls[c][i + 1]
            r == results[c][ProjectNo(c, i)]
            hookFailed == HooksRunAt(c, i) /\ calls[c][i + 3].out = "error"
        IN /\ tf.call = "Terraform.RunCommandWithVersion"
           /\ HooksRunAt(c, i) <=> (tf.out = "ok" /\ pre.out = "ok+hooks")
           /\ HooksRunAt(c, i)
                => calls[c][i + 3].args
                     = <<ctx[c].Environment, PinnedVersion>> \o WorkspaceDir(c) \o pre.args
           /\ hookFailed
                => /\ r.Error # NoErr
                   /\ r.Error[1] = "running post apply commands"
                   /\ r.ApplySuccess = NoStr /\ r.Failure = NoStr
           /\ tf.out = "error"
                => /\ r.Error = <<"exit status 1", tf.output>>
                   /\ r.ApplySuccess = NoStr /\ r.Failure = NoStr
           /\ (tf.out = "ok" /\ ~hookFailed)
                => /\ r.ApplySuccess = tf.output
                   /\ r.Error = NoErr /\ r.Failure = NoStr

\* Execute has returned the results of one project whose hooks failed after
\* a successful Terraform run and of one project whose Terraform run failed.
C13_Witness ==
  /\ pc[1] = "done"
  /\ \E i \in 1..Len(calls[1]) :
       /\ AppliedAt(1, i)
       /\ calls[1][i + 1].out = "ok"
       /\ HooksRunAt(1, i)
       /\ calls[1][i + 3].out = "error"
       /\ resp[1].ProjectResults[ProjectNo(1, i)].Error
            = <<"running post apply commands", "exit status 2">>
  /\ \E i \in 1..Len(calls[1]) :
       /\ AppliedAt(1, i)
       /\ calls[1][i].out = "ok+hooks"
       /\ calls[1][i + 1].out = "error"
       /\ ~HooksRunAt(1, i)

\* C14: a request BitbucketClient.do issues for a payload carries the
\* payload as its body: the POST of UpdateStatus to the commit's
\* statuses/build endpoint transmits the encoded status, whose State is the
\* mapped state and whose Description is the description given.
C14_PayloadIsSent ==
  bbRet.op = "UpdateStatus"
    => /\ bbSent.method = "POST"
       /\ bbSent.endpoint = CommitStatusURL(HeadCommit)
       /\ Len(bbSent.body) = 1
       /\ bbSent.body[1] = bbRet.status
       /\ bbSent.body[1].State = BitbucketState(bbRet.state)
       /\ bbSent.body[1].Description = bbRet.description

\* The last credential call wrote the file: it holds the rendering of the
\* call's credentials.
CredentialsWritten ==
  credFile = [exists |-> TRUE, lines |-> Rendered(ecsRet.credentials)]

\* C15: writeAwsCredentials returns nil only if the credentials file was
\* written, and an error whenever creating the directory or writing the
\* file fails; handleEcsCredentials returns an error whenever the fetch,
\* the decode or the file write fails.
C15_WriteFailureIsReported ==
  /\ ecsRet.op = "writeAwsCredentials"
       => /\ ecsRet.err = NoErr => CredentialsWritten
          /\ (MkdirFails(ecsRet.fs) \/ WriteFails(ecsRet.fs)) => ecsRet.err # NoErr
  /\ ecsRet.op = "handleEcsCredentials"
       => /\ ecsRet.exchange.transport # "ok" => ecsRet.err # NoErr
          /\ (ecsRet.exchange.transport = "ok" /\ DecodeFails(ecsRet.exchange.body))
               => ecsRet.err # NoErr
          /\ (/\ ecsRet.exchange.transport = "ok"
              /\ ~DecodeFails(ecsRet.exchange.body)
              /\ (MkdirFails(ecsRet.fs) \/ WriteFails(ecsRet.fs)))
               => ecsRet.err # NoErr

====
